---- MODULE Spec2Model ----
(***************************************************************************)
(* A model of the tabular preprocessing pipeline of data_prep.py           *)
(* (class DataPreprocessor) on small CSV tables.                           *)
(*                                                                         *)
(* A cell of a table is a record [k, n, s, d, src]: k is the kind of the    *)
(* value ("num", "str", "bool", "na", "z" for a standardized number, or    *)
(* the operation of a derived value), n its number and s its text.         *)
(* Numbers are kept as integer multiples of 1/Scale, so that the means and *)
(* medians computed over at most MaxCells values are exact; a standardized *)
(* number keeps its centred value and the sum of squares and count that    *)
(* make its divisor, a derived value the cells it was computed from.       *)
(* An optional value (Python's None or an object) is a sequence of length  *)
(* 0 or 1.                                                                 *)
(*                                                                         *)
(* The instance is driven either by get_processed_data, which calls the    *)
(* methods with their default arguments, or by a client that calls the     *)
(* same methods one by one in the documented order with a strategy and a   *)
(* method of its choice.  A method that raises ends the run.               *)
(***************************************************************************)
EXTENDS Integers, Sequences, FiniteSets, TLC

\* Bounds of the input tables: feature cells (rows x feature columns) and
\* feature columns of the CSV file.
MaxCells == 4
MaxCols == 2

RECURSIVE Gcd(_, _)
Gcd(a, b) == IF b = 0 THEN a ELSE Gcd(b, a % b)

RECURSIVE LcmUpTo(_)
LcmUpTo(n) == IF n <= 1 THEN 1 ELSE LET l == LcmUpTo(n - 1) IN (l * n) \div Gcd(l, n)

\* Numbers are stored multiplied by Scale (every mean of up to MaxCells
\* integers and every median is then an integer).
Scale == 2 * LcmUpTo(MaxCells)

None == <<>>
Some(v) == <<v>>
IsNone(o) == o = <<>>
Val(o) == o[1]

Range(s) == {s[i] : i \in DOMAIN s}

RECURSIVE SumSeq(_)
SumSeq(s) == IF s = <<>> THEN 0 ELSE Head(s) + SumSeq(Tail(s))

\* The subsequence of s at the positions p (in the order of p).
Pick(s, p) == [i \in 1..Len(p) |-> s[p[i]]]

\* The positions of a sequence that satisfy a test, ascending.
RECURSIVE PosUpTo(_, _)
PosUpTo(keep, n) ==
    IF n = 0 THEN <<>>
    ELSE IF n \in keep THEN Append(PosUpTo(keep, n - 1), n) ELSE PosUpTo(keep, n - 1)

(***************************************************************************)
(* Cells, column names, tables                                             *)
(***************************************************************************)
Cell(k, n, s, d, src) == [k |-> k, n |-> n, s |-> s, d |-> d, src |-> src]
Num(v) == Cell("num", v, "", <<>>, <<>>)
Str(t) == Cell("str", 0, t, <<>>, <<>>)
Bool(b) == Cell("bool", IF b THEN 1 ELSE 0, "", <<>>, <<>>)
NA == Cell("na", 0, "", <<>>, <<>>)
\* A standardized value: c / sqrt(ss / m), or c when ss = 0 (the scaler
\* divides by 1 when the variance is 0).
Z(c, ss, m) == Cell("z", c, "", <<ss, m>>, <<>>)
\* A derived value: the operation and the cells it was computed from.
Derived(op, src) == Cell(op, 0, "", <<>>, src)

IsNA(c) == c.k = "na"

\* A column name: a feature f<i>, the target, an indicator f<i>_<lvl> made by
\* one-hot encoding, or an engineered column.
ColName(b, i, l) == [base |-> b, i |-> i, lvl |-> l]
Feat(i) == ColName("f", i, "")
TargetName == ColName("target", 0, "")

\* The dtype pandas gives a parsed column: numbers (with or without missing
\* cells) are int64/float64, a column of booleans is bool, anything else
\* (text, or no row at all) is object.
InferDtype(cells) ==
    IF Len(cells) = 0 THEN "object"
    ELSE IF \A i \in DOMAIN cells : cells[i].k \in {"num", "na"} THEN "number"
    ELSE IF \A i \in DOMAIN cells : cells[i].k = "bool" THEN "bool"
    ELSE "object"

\* A DataFrame: the column names in order, the row index labels in order, and
\* per column its dtype and its cells (one per row, in row order).
Frame(cols, idx, dtype, col) == [cols |-> cols, idx |-> idx, dtype |-> dtype, col |-> col]
\* A Series: the row index labels and the values.
Series(idx, vals) == [idx |-> idx, vals |-> vals]

NRows(f) == Len(f.idx)
NCols(f) == Len(f.cols)
ColSet(f) == Range(f.cols)

\* DataFrame.select_dtypes(include=...).columns.tolist(): the columns whose
\* dtype is in the set, in column order.
SelectDtypes(f, dts) ==
    Pick(f.cols, PosUpTo({i \in 1..Len(f.cols) : f.dtype[f.cols[i]] \in dts}, Len(f.cols)))

\* DataFrame.isnull().sum().sum(): the number of missing cells of the frame.
RECURSIVE CountNA(_)
CountNA(cells) ==
    IF cells = <<>> THEN 0 ELSE (IF IsNA(Head(cells)) THEN 1 ELSE 0) + CountNA(Tail(cells))

\* A count of the cells that are present instead of the missing ones.
NotnullSum(f) ==
    SumSeq([i \in 1..Len(f.cols) |-> Len(f.col[f.cols[i]]) - CountNA(f.col[f.cols[i]])])

IsnullSum(f) == SumSeq([i \in 1..Len(f.cols) |-> CountNA(f.col[f.cols[i]])])

(***************************************************************************)
(* The CSV file at data_path                                               *)
(***************************************************************************)
\* The values a numeric, a text and a boolean column of the file may hold.
NumCells == {Num(1 * Scale), Num(2 * Scale), NA}
StrCells == {Str("a"), Str("b"), NA}
BoolCells == {Bool(TRUE)}

Columns(r) == [1..r -> NumCells] \cup [1..r -> StrCells] \cup [1..r -> BoolCells]

\* The target column: labels that alternate "y", "x", "y", ... or 2, 1, 2, ...
\* (not in sorted order of first appearance), or one label only.
Targets(r) == {[i \in 1..r |-> Str(IF i % 2 = 1 THEN "y" ELSE "x")],
               [i \in 1..r |-> Num(IF i % 2 = 1 THEN 2 * Scale ELSE Scale)],
               [i \in 1..r |-> Str("x")]}

\* A file is missing, has no content at all, or holds a header line and rows.
MissingFile == [kind |-> "missing", feat |-> <<>>, target |-> <<>>]
BlankFile == [kind |-> "blank", feat |-> <<>>, target |-> <<>>]
CsvFiles ==
    UNION {
      UNION { {[kind |-> "csv", feat |-> fs, target |-> t] :
                   fs \in [1..c -> Columns(r)], t \in Targets(r)}
              : r \in {r \in 0..MaxCells : r * c <= MaxCells} }
      : c \in 0..MaxCols }
Files == {MissingFile, BlankFile} \cup CsvFiles

\* pd.read_csv on a file with a header: the feature columns followed by the
\* target column, rows labelled 0..n-1.
ReadCsv(file) ==
    LET c == Len(file.feat)
        r == Len(file.target)
        cols == [i \in 1..(c + 1) |-> IF i <= c THEN Feat(i) ELSE TargetName]
        col == [nm \in Range(cols) |-> IF nm = TargetName THEN file.target ELSE file.feat[nm.i]]
    IN Frame(cols, [i \in 1..r |-> i - 1], [nm \in Range(cols) |-> InferDtype(col[nm])], col)

\* An emptiness test that looks at the columns only.
EmptyOfColumns(f) == NCols(f) = 0

\* DataFrame.empty: some axis has length 0.
Empty(f) == NRows(f) = 0 \/ NCols(f) = 0

(***************************************************************************)
(* State                                                                   *)
(***************************************************************************)
VARIABLES
    file,                 \* the content of the file at self.data_path
    df, X, y, target_col, \* fields of the DataPreprocessor
    numeric_features, categorical_features, scaler, le_target,
    caller,               \* who drives the instance: get_processed_data or a client
    pc,                   \* the next step of the caller
    log,                  \* the methods executed so far by the caller, in order
    err,                  \* the exception that ended the call, or "none"
    pre,                  \* the fields as they were before the last method call
    strategy, method,     \* the arguments of the last handle_missing_values and
                          \* encode_categorical_features calls ("" before)
    hmv_out,              \* what the last handle_missing_values returned and printed
    X_encoded, X_scaled, X_final, \* locals of get_processed_data
    ret,                  \* the returned pair
    first,                \* what a first get_processed_data returned and the fields
                          \* it left, once the caller has called it again
    X_train, y_train,     \* ModelTrainer: the training partition (rows, labels)
    X_test,               \* the rows of the test partition
    y_test,               \* the labels of the test partition
    cv,                   \* the cross-validation splitter
    result,               \* what the last get_best_model or get_evaluation_summary
                          \* since the last training call returned
    models, predictions, probabilities, cv_scores, test_scores, \* its dictionaries
    tcall,                \* the ModelTrainer method a client called last ("" before)
    todo,                 \* the model kinds that call has still to train, in order
    tpc,                  \* the next step of the train method in progress
    model,                \* the local model of the train method in progress
    tlog,                 \* the steps the last call executed, in order
    terr,                 \* the exception that ended the last call, or "none"
    tpre,                 \* the dictionaries as they were when the last call began
    ncalls,               \* the number of calls made so far
    student_profile,      \* the profile the form of the application submitted
    prediction            \* what generate_prediction returned for it

fields == <<df, X, y, target_col, numeric_features, categorical_features, scaler, le_target>>
locals == <<hmv_out, X_encoded, X_scaled, X_final, ret>>
args == <<strategy, method>>
dicts == <<models, predictions, probabilities, cv_scores, test_scores>>
parts == <<X_train, y_train, X_test, y_test, cv>>
tvars == <<parts, dicts, result, tcall, todo, tpc, model, tlog, terr, tpre, ncalls>>
pvars == <<file, df, X, y, target_col, numeric_features, categorical_features, scaler,
           le_target, caller, pc, log, err, pre, strategy, method, hmv_out, X_encoded, X_scaled, X_final, ret,
           first>>
\* The presentation layer (app_enhanced.py)
avars == <<student_profile, prediction>>
vars == <<pvars, tvars, avars>>

\* No ModelTrainer has been constructed.
NoTrainer ==
    /\ X_train = <<>> /\ y_train = <<>> /\ X_test = <<>> /\ y_test = <<>>
    /\ cv = None /\ result = None
    /\ models = <<>> /\ predictions = <<>> /\ probabilities = <<>>
    /\ cv_scores = <<>> /\ test_scores = <<>>
    /\ tcall = "" /\ todo = <<>> /\ tpc = "idle" /\ model = None
    /\ tlog = <<>> /\ terr = "none" /\ tpre = dicts /\ ncalls = 0

\* No profile has been submitted to the application.
NoApp == student_profile = None /\ prediction = None

\* The order of the calls in get_processed_data.
Steps == <<"load_data", "identify_target", "separate_features_target", "classify_features",
           "handle_missing_values", "encode_target", "encode_categorical_features",
           "standardize_numeric_features", "create_engineered_features">>

\* A get_processed_data that forgets the call of classify_features.
StepAfterSkippingClassify(s) ==
    LET i == CHOOSE j \in DOMAIN Steps : Steps[j] = s
    IN IF i = Len(Steps) THEN "return"
       ELSE IF Steps[i + 1] = "classify_features" THEN Steps[i + 2] ELSE Steps[i + 1]

StepAfter(s) ==
    LET i == CHOOSE j \in DOMAIN Steps : Steps[j] = s
    IN IF i = Len(Steps) THEN "return" ELSE Steps[i + 1]

\* DataPreprocessor.__init__
Init ==
    /\ file \in Files
    /\ df = None /\ X = None /\ y = None /\ target_col = None
    /\ numeric_features = <<>> /\ categorical_features = <<>>
    /\ scaler = None /\ le_target = None
    /\ caller = "nobody" /\ pc = "idle" /\ log = <<>> /\ err = "none"
    /\ pre = fields
    /\ strategy = "" /\ method = ""
    /\ hmv_out = None /\ X_encoded = None /\ X_scaled = None /\ X_final = None /\ ret = None
    /\ first = None
    /\ NoTrainer
    /\ NoApp

\* A method completes: the caller moves to its next call.
Completes(step) ==
    /\ pc' = StepAfter(step)
    /\ log' = Append(log, step)
    /\ err' = "none"
    /\ pre' = fields
    /\ UNCHANGED <<first, tvars, avars>>

\* A method raises: the exception propagates out of the caller.
Raises(step, e) ==
    /\ pc' = "failed"
    /\ log' = Append(log, step)
    /\ err' = e
    /\ pre' = fields
    /\ UNCHANGED <<first, tvars, avars>>

\* The caller starts: get_processed_data is called, or a client starts to call
\* the methods one by one with arguments of its choice.
Call ==
    /\ pc = "idle"
    /\ caller' \in {"get_processed_data", "client"}
    /\ pc' = Steps[1]
    /\ UNCHANGED <<file, fields, log, err, pre, locals, args, first, tvars, avars>>

\* load_data
LoadData ==
    /\ pc = "load_data"
    /\ IF file.kind = "missing" THEN
           /\ Raises("load_data", "FileNotFoundError")
           /\ df' = df
       ELSE IF file.kind = "blank" THEN
           \* pd.read_csv raises before the assignment to self.df
           /\ Raises("load_data", "EmptyDataError")
           /\ df' = df
       ELSE
           /\ df' = Some(ReadCsv(file))
           /\ IF Empty(ReadCsv(file))
              THEN Raises("load_data", "ValueError")
              ELSE Completes("load_data")
    /\ UNCHANGED <<file, X, y, target_col, numeric_features, categorical_features,
                   scaler, le_target, caller, locals, args>>

\* identify_target: the last column of the loaded table.
IdentifyTarget ==
    /\ pc = "identify_target"
    /\ target_col' = Some(Val(df).cols[Len(Val(df).cols)])
    /\ Completes("identify_target")
    /\ UNCHANGED <<file, df, X, y, numeric_features, categorical_features,
                   scaler, le_target, caller, locals, args>>

\* A drop that removes the first column instead of the named one.
DropFirstColumn(f, c) ==
    LET cols == Tail(f.cols)
    IN Frame(cols, f.idx, [nm \in Range(cols) |-> f.dtype[nm]], [nm \in Range(cols) |-> f.col[nm]])

\* DataFrame.drop(columns=[c]): a new frame without column c, same rows.
DropColumn(f, c) ==
    LET keep == PosUpTo({i \in 1..Len(f.cols) : f.cols[i] # c}, Len(f.cols))
        cols == Pick(f.cols, keep)
    IN Frame(cols, f.idx, [nm \in Range(cols) |-> f.dtype[nm]], [nm \in Range(cols) |-> f.col[nm]])

\* df[c]: the column c as a Series over the same row index.
GetColumn(f, c) == Series(f.idx, f.col[c])

\* separate_features_target
SeparateFeaturesTarget ==
    /\ pc = "separate_features_target"
    /\ X' = Some(DropColumn(Val(df), Val(target_col)))
    /\ y' = Some(GetColumn(Val(df), Val(target_col)))
    /\ Completes("separate_features_target")
    /\ UNCHANGED <<file, df, target_col, numeric_features, categorical_features,
                   scaler, le_target, caller, locals, args>>

\* A selection of numbers that takes booleans for numbers too.
NumberDtypesWithBool == {"number", "bool"}

\* The dtypes np.number and 'object' select.
NumberDtypes == {"number"}
ObjectDtypes == {"object"}

\* A classify_features that extends the two lists instead of replacing them.
ClassifyFeaturesAppending ==
    /\ pc = "classify_features"
    /\ numeric_features' = numeric_features \o SelectDtypes(Val(X), NumberDtypes)
    /\ categorical_features' = categorical_features \o SelectDtypes(Val(X), ObjectDtypes)
    /\ Completes("classify_features")
    /\ UNCHANGED <<file, df, X, y, target_col, scaler, le_target, caller, locals, args>>

\* classify_features
ClassifyFeatures ==
    /\ pc = "classify_features"
    /\ numeric_features' = SelectDtypes(Val(X), NumberDtypes)
    /\ categorical_features' = SelectDtypes(Val(X), ObjectDtypes)
    /\ Completes("classify_features")
    /\ UNCHANGED <<file, df, X, y, target_col, scaler, le_target, caller, locals, args>>

\* The values of a column that are not missing, in row order.
NonMissing(cells) == Pick(cells, PosUpTo({i \in 1..Len(cells) : ~IsNA(cells[i])}, Len(cells)))

\* A sequence of integers in ascending order.
RECURSIVE SortInts(_)
SortInts(s) ==
    IF s = <<>> THEN <<>>
    ELSE LET m == CHOOSE i \in DOMAIN s : \A j \in DOMAIN s : s[i] <= s[j]
         IN <<s[m]>> \o SortInts(Pick(s, PosUpTo(DOMAIN s \ {m}, Len(s))))

Mean(ns) == SumSeq(ns) \div Len(ns)
Median(ns) ==
    LET t == SortInts(ns)
        h == Len(ns) \div 2
    IN IF Len(ns) % 2 = 1 THEN t[h + 1] ELSE (t[h] + t[h + 1]) \div 2

\* The statistic SimpleImputer fits on a column that has some value.
Statistic(cells, sg) ==
    LET ns == [i \in 1..Len(NonMissing(cells)) |-> NonMissing(cells)[i].n]
    IN IF sg = "mean" THEN Mean(ns) ELSE Median(ns)

\* SimpleImputer.transform on one column: every missing cell becomes the statistic.
ImputeColumn(cells, sg) ==
    [i \in 1..Len(cells) |->
        IF IsNA(cells[i]) THEN Num(Statistic(cells, sg)) ELSE cells[i]]

\* The strategies SimpleImputer accepts for numeric data here, and the ones a
\* caller of handle_missing_values may pass (its docstring lists 'mode').
ImputerStrategies == {"mean", "median"}
Strategies == {"mean", "median", "mode", "drop"}

\* The error SimpleImputer(strategy).fit_transform(X[cols]) followed by the
\* assignment to X[cols] raises, or "none": an invalid strategy, no column to
\* fit, or a column without any value (the imputer drops it, and the
\* assignment of fewer columns than keys fails).
ImputeError(f, cols, sg) ==
    IF sg \notin ImputerStrategies THEN "InvalidParameterError"
    ELSE IF Len(cols) = 0 THEN "ValueError"
    ELSE IF \E i \in DOMAIN cols : NonMissing(f.col[cols[i]]) = <<>> THEN "ValueError"
    ELSE "none"

\* X[cols] = imputer.fit_transform(X[cols])
ImputeFrame(f, cols, sg) ==
    [f EXCEPT !.col = [nm \in DOMAIN f.col |->
        IF nm \in Range(cols) THEN ImputeColumn(f.col[nm], sg) ELSE f.col[nm]]]

\* A dropna restricted to the numeric columns (dropna(subset=numeric columns)).
CompleteNumericRows(f) ==
    PosUpTo({r \in 1..NRows(f) :
                \A nm \in ColSet(f) : f.dtype[nm] = "number" => ~IsNA(f.col[nm][r])}, NRows(f))

\* The positions of the rows DataFrame.dropna() keeps: no missing cell in any column.
CompleteRows(f) ==
    PosUpTo({r \in 1..NRows(f) : \A nm \in ColSet(f) : ~IsNA(f.col[nm][r])}, NRows(f))

\* The frame restricted to the rows at the given positions.
TakeRows(f, p) ==
    [f EXCEPT !.idx = Pick(f.idx, p), !.col = [nm \in DOMAIN f.col |-> Pick(f.col[nm], p)]]

Dropna(f) == TakeRows(f, CompleteRows(f))

\* handle_missing_values(strategy); get_processed_data passes no argument
\* (strategy = 'mean').
HandleMissingValues ==
    /\ pc = "handle_missing_values"
    /\ \E sg \in (IF caller = "get_processed_data" THEN {"mean"} ELSE Strategies) :
        LET initial_missing == IsnullSum(Val(X)) IN
        /\ strategy' = sg
        /\ IF initial_missing = 0 THEN
               /\ X' = X
               /\ hmv_out' = Some([rv |-> Val(X), msg |-> "No missing values detected", n |-> 0])
               /\ Completes("handle_missing_values")
           ELSE IF sg = "drop" THEN
               /\ X' = Some(Dropna(Val(X)))
               /\ hmv_out' = Some([rv |-> Dropna(Val(X)), msg |-> "Removed rows",
                                   n |-> initial_missing])
               /\ Completes("handle_missing_values")
           ELSE IF ImputeError(Val(X), numeric_features, sg) # "none" THEN
               /\ X' = X
               /\ hmv_out' = None
               /\ Raises("handle_missing_values", ImputeError(Val(X), numeric_features, sg))
           ELSE
               /\ X' = Some(ImputeFrame(Val(X), numeric_features, sg))
               /\ hmv_out' = Some([rv |-> ImputeFrame(Val(X), numeric_features, sg),
                                   msg |-> "Imputed missing values", n |-> initial_missing])
               /\ Completes("handle_missing_values")
    /\ UNCHANGED <<file, df, y, target_col, numeric_features, categorical_features,
                   scaler, le_target, caller, X_encoded, X_scaled, X_final, ret, method>>

\* The order of the text values (sorting of labels).
Alphabet == <<"a", "b", "x", "y">>
StrRank(t) == CHOOSE i \in DOMAIN Alphabet : Alphabet[i] = t

\* The sort key of a label: its number, or the rank of its text.
LabelKey(c) == IF c.k = "str" THEN StrRank(c.s) ELSE c.n

\* A set of integers as an ascending sequence.
RECURSIVE SortSet(_)
SortSet(S) ==
    IF S = {} THEN <<>>
    ELSE LET m == CHOOSE a \in S : \A b \in S : a <= b IN <<m>> \o SortSet(S \ {m})

\* The distinct values in the order of their first appearance (pd.unique).
RECURSIVE UniqueAsSeen(_)
UniqueAsSeen(cells) ==
    IF cells = <<>> THEN <<>>
    ELSE LET u == UniqueAsSeen(SubSeq(cells, 1, Len(cells) - 1))
         IN IF cells[Len(cells)] \in Range(u) THEN u ELSE Append(u, cells[Len(cells)])

\* np.unique: the distinct values in ascending order.
SortedUnique(cells) ==
    LET S == Range(cells)
        keys == SortSet({LabelKey(c) : c \in S})
    IN [i \in 1..Len(keys) |-> CHOOSE c \in S : LabelKey(c) = keys[i]]

\* LabelEncoder.fit: classes_ are the sorted distinct labels.
LabelFit(cells) == [classes |-> SortedUnique(cells)]
\* LabelEncoder.transform of one label: its position in classes_, from 0.
LabelCode(le, c) == (CHOOSE i \in DOMAIN le.classes : le.classes[i] = c) - 1
\* LabelEncoder.inverse_transform of one code.
LabelDecode(le, code) == le.classes[code + 1]

\* encode_target
EncodeTarget ==
    /\ pc = "encode_target"
    /\ le_target' = Some(LabelFit(Val(y).vals))
    /\ y' = Some(Series(Val(y).idx,
                        [i \in 1..Len(Val(y).vals) |->
                            Num(Scale * LabelCode(LabelFit(Val(y).vals), Val(y).vals[i]))]))
    /\ Completes("encode_target")
    /\ UNCHANGED <<file, df, X, target_col, numeric_features, categorical_features,
                   scaler, caller, locals, args>>

\* The flattening of a sequence of sequences.
RECURSIVE Concat(_)
Concat(ss) == IF ss = <<>> THEN <<>> ELSE Head(ss) \o Concat(Tail(ss))

\* The levels an encoding with drop_first=True keeps: all but the first.
LevelsDropFirst(cells) ==
    IF NonMissing(cells) = <<>> THEN <<>> ELSE Tail(SortedUnique(NonMissing(cells)))

\* The observed category values of a column, sorted (missing cells are none).
Levels(cells) == SortedUnique(NonMissing(cells))

\* The name of the indicator column of a level of a column.
Indicator(c, lv) == ColName(c.base, c.i, lv.s)

\* pd.get_dummies(f, columns=cats, drop_first=False, dtype=int): the other
\* columns in order, then for each encoded column one 0/1 column per level.
GetDummies(f, cats) ==
    LET keep == Pick(f.cols, PosUpTo({i \in 1..Len(f.cols) : f.cols[i] \notin Range(cats)},
                                     Len(f.cols)))
        made == Concat([i \in 1..Len(cats) |->
                           [j \in 1..Len(Levels(f.col[cats[i]])) |->
                               [name |-> Indicator(cats[i], Levels(f.col[cats[i]])[j]),
                                of |-> cats[i],
                                lv |-> Levels(f.col[cats[i]])[j]]]])
        cols == keep \o [i \in 1..Len(made) |-> made[i].name]
        Made(nm) == CHOOSE i \in DOMAIN made : made[i].name = nm
    IN Frame(cols, f.idx,
             [nm \in Range(cols) |-> IF nm \in Range(keep) THEN f.dtype[nm] ELSE "number"],
             [nm \in Range(cols) |->
                 IF nm \in Range(keep) THEN f.col[nm]
                 ELSE [r \in 1..NRows(f) |->
                          IF f.col[made[Made(nm)].of][r] = made[Made(nm)].lv
                          THEN Num(Scale) ELSE Num(0)]])

\* An OrdinalEncoder left at handle_unknown='error': an unseen value raises.
OrdinalCodeStrict(cats, c) ==
    IF IsNA(c) THEN NA
    ELSE IF c \in Range(cats) THEN Num(Scale * ((CHOOSE i \in DOMAIN cats : cats[i] = c) - 1))
    ELSE Cell("error", 0, "ValueError", <<>>, <<>>)

\* The value OrdinalEncoder(handle_unknown='use_encoded_value',
\* unknown_value=-1) fitted on the categories gives a cell: the position of a
\* known category, missing for a missing cell, -1 for an unseen value.
OrdinalCode(cats, c) ==
    IF IsNA(c) THEN NA
    ELSE IF c \in Range(cats) THEN Num(Scale * ((CHOOSE i \in DOMAIN cats : cats[i] = c) - 1))
    ELSE Num(0 - Scale)

\* X_encoded[cats] = encoder.fit_transform(X[cats])
OrdinalFrame(f, cats) ==
    [f EXCEPT !.dtype = [nm \in DOMAIN f.dtype |->
                            IF nm \in Range(cats) THEN "number" ELSE f.dtype[nm]],
              !.col = [nm \in DOMAIN f.col |->
                          IF nm \in Range(cats)
                          THEN [r \in 1..NRows(f) |-> OrdinalCode(Levels(f.col[nm]), f.col[nm][r])]
                          ELSE f.col[nm]]]

Methods == {"onehot", "ordinal"}

\* An encode_categorical_features that encodes the text columns the table
\* has, whatever classify_features recorded.
EncodeCategoricalFeaturesByDtype ==
    /\ pc = "encode_categorical_features"
    /\ \E md \in (IF caller = "get_processed_data" THEN {"onehot"} ELSE Methods) :
        /\ method' = md
        /\ IF SelectDtypes(Val(X), ObjectDtypes) = <<>> THEN
               /\ X_encoded' = X
               /\ Completes("encode_categorical_features")
           ELSE IF md = "onehot" THEN
               /\ X_encoded' = Some(GetDummies(Val(X), SelectDtypes(Val(X), ObjectDtypes)))
               /\ Completes("encode_categorical_features")
           ELSE IF NRows(Val(X)) = 0 THEN
               /\ X_encoded' = X_encoded
               /\ Raises("encode_categorical_features", "ValueError")
           ELSE
               /\ X_encoded' = Some(OrdinalFrame(Val(X), SelectDtypes(Val(X), ObjectDtypes)))
               /\ Completes("encode_categorical_features")
    /\ UNCHANGED <<file, fields, caller, hmv_out, X_scaled, X_final, ret, strategy>>

\* encode_categorical_features(method); get_processed_data passes no argument
\* (method = 'onehot').  The ordinal encoder rejects a table without rows.
EncodeCategoricalFeatures ==
    /\ pc = "encode_categorical_features"
    /\ \E md \in (IF caller = "get_processed_data" THEN {"onehot"} ELSE Methods) :
        /\ method' = md
        /\ IF categorical_features = <<>> THEN
               /\ X_encoded' = X
               /\ Completes("encode_categorical_features")
           ELSE IF md = "onehot" THEN
               /\ X_encoded' = Some(GetDummies(Val(X), categorical_features))
               /\ Completes("encode_categorical_features")
           ELSE IF NRows(Val(X)) = 0 THEN
               /\ X_encoded' = X_encoded
               /\ Raises("encode_categorical_features", "ValueError")
           ELSE
               /\ X_encoded' = Some(OrdinalFrame(Val(X), categorical_features))
               /\ Completes("encode_categorical_features")
    /\ UNCHANGED <<file, fields, caller, hmv_out, X_scaled, X_final, ret, strategy>>

\* DataFrame.fillna(0) on one column.
Fillna0(cells) == [i \in 1..Len(cells) |-> IF IsNA(cells[i]) THEN Num(0) ELSE cells[i]]

\* StandardScaler.fit on one column: the mean, and the sum of the squared
\* deviations from it (the variance times the number of rows).
ColMean(cells) == SumSeq([i \in 1..Len(cells) |-> cells[i].n]) \div Len(cells)
ColSumSq(cells) ==
    SumSeq([i \in 1..Len(cells) |-> (cells[i].n - ColMean(cells)) * (cells[i].n - ColMean(cells))])

\* StandardScaler(): not fitted yet.
NewScaler == [fitted |-> FALSE, cols |-> <<>>, mean |-> <<>>, ss |-> <<>>, n |-> 0]

\* StandardScaler.fit on the columns cols of a frame (missing cells filled with 0).
FitScaler(f, cols) ==
    [fitted |-> TRUE, cols |-> cols,
     mean |-> [nm \in Range(cols) |-> ColMean(Fillna0(f.col[nm]))],
     ss |-> [nm \in Range(cols) |-> ColSumSq(Fillna0(f.col[nm]))],
     n |-> NRows(f)]

\* A scaler built with with_mean=False: it divides without centring.
ScaleCellUncentred(sc, nm, c) == Z(c.n, sc.ss[nm], sc.n)

\* StandardScaler.transform of one value of column nm: (x - mean) / std, where
\* a std of 0 is replaced by 1.
ScaleCell(sc, nm, c) == Z(c.n - sc.mean[nm], sc.ss[nm], sc.n)

\* A standardization that leaves the indicator columns of the one-hot
\* encoding as they are.
ScaleFrameOriginal(f, cols) ==
    [f EXCEPT !.col = [nm \in DOMAIN f.col |->
        IF nm \in Range(cols) /\ nm.lvl = ""
        THEN [r \in 1..NRows(f) |-> ScaleCell(FitScaler(f, cols), nm, Fillna0(f.col[nm])[r])]
        ELSE f.col[nm]]]

\* X_scaled[cols] = scaler.fit_transform(X_encoded[cols].fillna(0))
ScaleFrame(f, cols) ==
    [f EXCEPT !.col = [nm \in DOMAIN f.col |->
        IF nm \in Range(cols)
        THEN [r \in 1..NRows(f) |-> ScaleCell(FitScaler(f, cols), nm, Fillna0(f.col[nm])[r])]
        ELSE f.col[nm]]]

\* standardize_numeric_features(X_encoded).  The scaler rejects a table
\* without rows, after self.scaler was replaced by the new scaler.
StandardizeNumericFeatures ==
    /\ pc = "standardize_numeric_features"
    /\ LET f == Val(X_encoded)
           numeric_cols == SelectDtypes(f, NumberDtypes)
       IN IF numeric_cols = <<>> THEN
              /\ scaler' = scaler
              /\ X_scaled' = Some(f)
              /\ Completes("standardize_numeric_features")
          ELSE IF NRows(f) = 0 THEN
              /\ scaler' = Some(NewScaler)
              /\ X_scaled' = X_scaled
              /\ Raises("standardize_numeric_features", "ValueError")
          ELSE
              /\ scaler' = Some(FitScaler(f, numeric_cols))
              /\ X_scaled' = Some(ScaleFrame(f, numeric_cols))
              /\ Completes("standardize_numeric_features")
    /\ UNCHANGED <<file, df, X, y, target_col, numeric_features, categorical_features,
                   le_target, caller, hmv_out, X_encoded, X_final, ret, args>>

\* The frame with one more column of numbers at the end.
WithColumn(f, nm, cells) ==
    Frame(Append(f.cols, nm), f.idx,
          [c \in Range(f.cols) \cup {nm} |-> IF c = nm THEN "number" ELSE f.dtype[c]],
          [c \in Range(f.cols) \cup {nm} |-> IF c = nm THEN cells ELSE f.col[c]])

EfficiencyName == ColName("Efficiency_Score", 0, "")
EngagementName == ColName("Engagement_Score", 0, "")
LearningName == ColName("Learning_Index", 0, "")

\* The minimum numbers of numeric columns of the three engineered features.
RatioMin == 2
MeanMin == 3
SumMin == 4

\* The cells of the first n numeric columns of a frame in row r.
FirstCells(f, nc, n, r) == [i \in 1..n |-> f.col[nc[i]][r]]

\* A create_engineered_features that reads the numeric columns of the table
\* it is building, so that a derived column counts for the next threshold.
EngineerChained(f) ==
    LET nc == SelectDtypes(f, {"number"})
        e1 == IF Len(nc) >= RatioMin
              THEN WithColumn(f, EfficiencyName,
                              [r \in 1..NRows(f) |-> Derived("ratio", FirstCells(f, nc, RatioMin, r))])
              ELSE f
        n1 == SelectDtypes(e1, {"number"})
        e2 == IF Len(n1) >= MeanMin
              THEN WithColumn(e1, EngagementName,
                              [r \in 1..NRows(f) |-> Derived("mean", FirstCells(e1, n1, MeanMin, r))])
              ELSE e1
        n2 == SelectDtypes(e2, {"number"})
        e3 == IF Len(n2) >= SumMin
              THEN WithColumn(e2, LearningName,
                              [r \in 1..NRows(f) |-> Derived("sum", FirstCells(e2, n2, SumMin, r))])
              ELSE e2
    IN e3

\* create_engineered_features on a frame: each feature is computed from the
\* numeric columns of the argument and appended when enough of them exist.
Engineer(f) ==
    LET nc == SelectDtypes(f, NumberDtypes)
        e1 == IF Len(nc) >= RatioMin
              THEN WithColumn(f, EfficiencyName,
                              [r \in 1..NRows(f) |-> Derived("ratio", FirstCells(f, nc, RatioMin, r))])
              ELSE f
        e2 == IF Len(nc) >= MeanMin
              THEN WithColumn(e1, EngagementName,
                              [r \in 1..NRows(f) |-> Derived("mean", FirstCells(f, nc, MeanMin, r))])
              ELSE e1
        e3 == IF Len(nc) >= SumMin
              THEN WithColumn(e2, LearningName,
                              [r \in 1..NRows(f) |-> Derived("sum", FirstCells(f, nc, SumMin, r))])
              ELSE e2
    IN e3

\* create_engineered_features(X_scaled)
CreateEngineeredFeatures ==
    /\ pc = "create_engineered_features"
    /\ X_final' = Some(Engineer(Val(X_scaled)))
    /\ Completes("create_engineered_features")
    /\ UNCHANGED <<file, fields, caller, hmv_out, X_encoded, X_scaled, ret, args>>

\* The return of get_processed_data: the engineered table and self.y (a
\* client ends with the same pair).
Return ==
    /\ pc = "return"
    /\ ret' = Some([X |-> Val(X_final), y |-> Val(y)])
    /\ pc' = "done"
    /\ UNCHANGED <<file, fields, caller, log, err, pre, hmv_out, X_encoded, X_scaled, X_final,
                   args, first, tvars, avars>>

Next ==
    \/ Call
    \/ LoadData
    \/ IdentifyTarget
    \/ SeparateFeaturesTarget
    \/ ClassifyFeatures
    \/ HandleMissingValues
    \/ EncodeTarget
    \/ EncodeCategoricalFeatures
    \/ StandardizeNumericFeatures
    \/ CreateEngineeredFeatures
    \/ Return

Spec == Init /\ [][Next]_vars

(***************************************************************************)
(* Callers that use the instance in other ways: a client that does not     *)
(* call classify_features, and a second get_processed_data                 *)
(***************************************************************************)
\* A client goes from separate_features_target to handle_missing_values
\* without calling classify_features: the two lists stay as __init__ left them.
SkipClassify ==
    /\ pc = "classify_features" /\ caller = "client"
    /\ pc' = "handle_missing_values"
    /\ UNCHANGED <<file, fields, caller, log, err, pre, locals, args, first, tvars, avars>>

\* get_processed_data has returned and is called once more on the same
\* instance, the file unchanged: the caller keeps the first result, the
\* fields stay as the first call left them, the locals are those of the new
\* call.
CallAgain ==
    /\ pc = "done" /\ caller = "get_processed_data" /\ first = None
    /\ first' = Some([ret |-> Val(ret), fields |-> fields])
    /\ pc' = Steps[1]
    /\ log' = <<>>
    /\ hmv_out' = None /\ X_encoded' = None /\ X_scaled' = None /\ X_final' = None
    /\ ret' = None
    /\ UNCHANGED <<file, fields, caller, err, pre, args, tvars, avars>>

NextClient ==
    \/ Next
    \/ SkipClassify
    \/ CallAgain

SpecClient == Init /\ [][NextClient]_vars

(***************************************************************************)
(* The pipeline on a complete table of three numeric columns, one text     *)
(* column with two values and a target with three labels                   *)
(***************************************************************************)
\* The number of rows of the table.
ScenarioRows == 10

\* Numeric columns (values that keep the column means exact), text columns
\* in which both values occur, targets in which three labels occur.
ScenarioNumColumns ==
    {[i \in 1..ScenarioRows |-> Num((((i + k) % 3) + 1) * ScenarioRows * Scale)] : k \in 0..2}
ScenarioStrColumns ==
    {[i \in 1..ScenarioRows |-> Str(IF (i + k) % 2 = 0 THEN "a" ELSE "b")] : k \in 0..1}
ScenarioTargets ==
    {[i \in 1..ScenarioRows |-> Str(<<"y", "a", "x">>[((i + k) % 3) + 1])] : k \in 0..2}
ScenarioFiles ==
    {[kind |-> "csv", feat |-> <<n1, n2, n3, c>>, target |-> t] :
        n1 \in ScenarioNumColumns, n2 \in ScenarioNumColumns, n3 \in ScenarioNumColumns,
        c \in ScenarioStrColumns, t \in ScenarioTargets}

\* DataPreprocessor.__init__ with the path of such a file.
InitScenario ==
    /\ file \in ScenarioFiles
    /\ df = None /\ X = None /\ y = None /\ target_col = None
    /\ numeric_features = <<>> /\ categorical_features = <<>>
    /\ scaler = None /\ le_target = None
    /\ caller = "nobody" /\ pc = "idle" /\ log = <<>> /\ err = "none"
    /\ pre = fields
    /\ strategy = "" /\ method = ""
    /\ hmv_out = None /\ X_encoded = None /\ X_scaled = None /\ X_final = None /\ ret = None
    /\ first = None
    /\ NoTrainer
    /\ NoApp

SpecScenario == InitScenario /\ [][Next]_vars

(***************************************************************************)
(* ModelTrainer                                                            *)
(***************************************************************************)
\* The number of rows of the test partition, the class codes of the target,
\* and the number of calls a client makes.
TestRows == 2
Classes == {0, 1}
MaxCalls == 2

\* The targets of the test partition: the class codes alternate.
TestTarget == [i \in 1..TestRows |-> i % 2]

\* The predictions a fitted model may give for the rows of the test
\* partition: the target of every row, or class 0 for every row.
LabelVectors == {TestTarget, [i \in 1..TestRows |-> 0]}

\* The model kinds in the order train_all_models trains them, with RandomForest
\* and LogisticRegression exchanged.
TrainAllOrderForestFirst ==
    <<"Random_Forest", "Logistic_Regression", "XGBoost", "Neural_Network">>

\* The model kinds in the order train_all_models trains them.
TrainAllOrder == <<"Logistic_Regression", "Random_Forest", "XGBoost", "Neural_Network">>
Kinds == Range(TrainAllOrder)

\* The predictions a fitted model of each kind may give: the first two kinds
\* may be right or answer class 0 throughout, the third is right, the fourth
\* answers class 0.
PredictionsOf(k) ==
    CASE k = "Logistic_Regression" -> LabelVectors
      [] k = "Random_Forest" -> LabelVectors
      [] k = "XGBoost" -> {TestTarget}
      [] k = "Neural_Network" -> LabelVectors \ {TestTarget}

\* The train method of each kind.
TrainMethod(k) ==
    CASE k = "Logistic_Regression" -> "train_logistic_regression"
      [] k = "Random_Forest" -> "train_random_forest"
      [] k = "XGBoost" -> "train_xgboost"
      [] k = "Neural_Network" -> "train_neural_network"

\* A Python dict: the items in insertion order; an assignment to a key that
\* exists replaces its value in place.
DictKeys(d) == {d[i].key : i \in DOMAIN d}
DictGet(d, k) == d[CHOOSE i \in DOMAIN d : d[i].key = k].val
DictPut(d, k, v) ==
    IF k \in DictKeys(d)
    THEN [i \in DOMAIN d |-> IF d[i].key = k THEN [key |-> k, val |-> v] ELSE d[i]]
    ELSE Append(d, [key |-> k, val |-> v])

\* The scores are kept as integers: a score s stands for s / MetricScale.
MetricScale == LcmUpTo(2 * TestRows) * LcmUpTo(Cardinality(Classes))

\* a / b as a score, and 0 when b = 0 (zero_division=0).
Ratio(a, b) == IF b = 0 THEN 0 ELSE (a * MetricScale) \div b

\* The rows of class c that are predicted c, the rows predicted c that are
\* not of class c, and the rows of class c that are predicted otherwise.
TruePos(yt, yp, c) == Cardinality({i \in DOMAIN yt : yt[i] = c /\ yp[i] = c})
FalsePos(yt, yp, c) == Cardinality({i \in DOMAIN yt : yt[i] # c /\ yp[i] = c})
FalseNeg(yt, yp, c) == Cardinality({i \in DOMAIN yt : yt[i] = c /\ yp[i] # c})

\* The labels that occur in the targets or in the predictions, ascending,
\* and the macro average of the scores of the labels.
LabelsOf(yt, yp) == SortSet(Range(yt) \cup Range(yp))
MacroAverage(scores) == SumSeq(scores) \div Len(scores)

AccuracyScore(yt, yp) == Ratio(Cardinality({i \in DOMAIN yt : yt[i] = yp[i]}), Len(yt))
PrecisionScore(yt, yp) ==
    MacroAverage([i \in 1..Len(LabelsOf(yt, yp)) |->
        LET c == LabelsOf(yt, yp)[i]
        IN Ratio(TruePos(yt, yp, c), TruePos(yt, yp, c) + FalsePos(yt, yp, c))])
RecallScore(yt, yp) ==
    MacroAverage([i \in 1..Len(LabelsOf(yt, yp)) |->
        LET c == LabelsOf(yt, yp)[i]
        IN Ratio(TruePos(yt, yp, c), TruePos(yt, yp, c) + FalseNeg(yt, yp, c))])
F1Score(yt, yp) ==
    MacroAverage([i \in 1..Len(LabelsOf(yt, yp)) |->
        LET c == LabelsOf(yt, yp)[i]
        IN Ratio(2 * TruePos(yt, yp, c),
                 2 * TruePos(yt, yp, c) + FalsePos(yt, yp, c) + FalseNeg(yt, yp, c))])

\* The dictionary _evaluate_model stores in test_scores.
TestScores(yt, yp) ==
    [Accuracy |-> AccuracyScore(yt, yp), Precision |-> PrecisionScore(yt, yp),
     Recall |-> RecallScore(yt, yp), F1_Score |-> F1Score(yt, yp)]

\* The rows and labels of the two partitions: the training partition has
\* twice the rows of the test partition; the rows are numbered.
TrainTarget == [i \in 1..(2 * TestRows) |-> i % 2]
TrainFeatures == [i \in 1..(2 * TestRows) |-> i]
TestFeatures == [i \in 1..TestRows |-> 2 * TestRows + i]

\* StratifiedKFold(n_splits=5, shuffle=True, random_state=random_state), with
\* the default random_state of the constructor.
Splitter == [class |-> "StratifiedKFold", n_splits |-> 5, shuffle |-> TRUE, random_state |-> 42]

\* The result of cross_validate: the scores of the folds of the data it was
\* given, made with the splitter it was given (the values are left open).
CvRecord(k) == [estimator |-> k, X |-> X_train, y |-> y_train, cv |-> Val(cv)]

\* The model a train method constructs, and the model after fit: what it
\* predicts for the rows of the test partition is fixed by the fit.  call is
\* the call that fitted the object (two fits give two objects).
NewModel(k) == [kind |-> k, fitted |-> FALSE, predicts |-> <<>>, call |-> 0]
FittedModel(k, p) == [kind |-> k, fitted |-> TRUE, predicts |-> p, call |-> ncalls]

\* What a step of a train method would pass on if cross_validate were given
\* the test partition.
ReadsOfPeeking(step) ==
    CASE step = "cross_validate" -> {"X_test", "y_test", "cv"}
      [] step = "fit" -> {"X_train", "y_train"}
      [] step = "_evaluate_model" -> {"X_test", "y_test"}
      [] step = "store" -> {}

\* The fields of the trainer a step of a train method passes to the model or
\* to sklearn: cross_validate(model, self.X_train, self.y_train, cv=self.cv),
\* model.fit(self.X_train, self.y_train), predict(self.X_test) and the
\* metrics of (self.y_test, predictions).
ReadsOf(step) ==
    CASE step = "cross_validate" -> {"X_train", "y_train", "cv"}
      [] step = "fit" -> {"X_train", "y_train"}
      [] step = "_evaluate_model" -> {"X_test", "y_test"}
      [] step = "store" -> {}

\* ModelTrainer.__init__
InitTrainer ==
    /\ file = MissingFile
    /\ df = None /\ X = None /\ y = None /\ target_col = None
    /\ numeric_features = <<>> /\ categorical_features = <<>>
    /\ scaler = None /\ le_target = None
    /\ caller = "nobody" /\ pc = "idle" /\ log = <<>> /\ err = "none"
    /\ pre = fields
    /\ strategy = "" /\ method = ""
    /\ hmv_out = None /\ X_encoded = None /\ X_scaled = None /\ X_final = None /\ ret = None
    /\ first = None
    /\ X_train = TrainFeatures /\ y_train = TrainTarget
    /\ X_test = TestFeatures /\ y_test = TestTarget
    /\ cv = Some(Splitter) /\ result = None
    /\ models = <<>> /\ predictions = <<>> /\ probabilities = <<>>
    /\ cv_scores = <<>> /\ test_scores = <<>>
    /\ tcall = "" /\ todo = <<>> /\ tpc = "idle" /\ model = None
    /\ tlog = <<>> /\ terr = "none" /\ tpre = dicts /\ ncalls = 0
    /\ NoApp

\* The steps of a train method in an order that stores the model in
\* self.models before it is evaluated.
TrainStepsStoreFirst == <<"cross_validate", "fit", "store", "_evaluate_model">>

\* The steps of every train_<kind> method, in the order of its statements:
\* cross_validate and self.cv_scores[kind] = ..., model.fit,
\* self._evaluate_model, self.models[kind] = model.
TrainSteps == <<"cross_validate", "fit", "_evaluate_model", "store">>

TrainStepAfter(s) ==
    LET i == CHOOSE j \in DOMAIN TrainSteps : TrainSteps[j] = s
    IN IF i = Len(TrainSteps) THEN "return" ELSE TrainSteps[i + 1]

\* A step of the train method of kind Head(todo) completes, m being its
\* local model: the method goes on, or returns; then train_all_models calls
\* the next train method, and the call is over after the last one.
Advance(step, m) ==
    /\ tlog' = Append(tlog, [kind |-> Head(todo), step |-> step, ok |-> TRUE,
                              reads |-> ReadsOf(step)])
    /\ terr' = "none"
    /\ IF TrainStepAfter(step) # "return" THEN
           /\ tpc' = TrainStepAfter(step) /\ todo' = todo /\ model' = m
       ELSE IF Len(todo) > 1 THEN
           /\ tpc' = TrainSteps[1] /\ todo' = Tail(todo) /\ model' = Some(NewModel(todo[2]))
       ELSE
           /\ tpc' = "idle" /\ todo' = <<>> /\ model' = None

\* A step raises: nothing catches the exception, neither the train method
\* nor train_all_models, so the call is over.
Fail(step, e) ==
    /\ tlog' = Append(tlog, [kind |-> Head(todo), step |-> step, ok |-> FALSE,
                              reads |-> ReadsOf(step)])
    /\ terr' = e
    /\ tpc' = "idle" /\ todo' = <<>> /\ model' = None

\* A client calls train_all_models or one of the train methods.
TrainerCall ==
    /\ tpc = "idle" /\ ncalls < MaxCalls
    /\ \E ks \in {TrainAllOrder} \cup {<<k>> : k \in Kinds} :
        /\ tcall' = (IF Len(ks) = 1 THEN TrainMethod(ks[1]) ELSE "train_all_models")
        /\ todo' = ks
        /\ model' = Some(NewModel(ks[1]))
    /\ tpc' = TrainSteps[1]
    /\ tlog' = <<>> /\ terr' = "none" /\ tpre' = dicts /\ ncalls' = ncalls + 1
    /\ result' = None
    /\ UNCHANGED <<pvars, avars, parts, dicts>>

\* cv_scores = cross_validate(model, X_train, y_train, cv=self.cv, ...);
\* self.cv_scores[kind] = cv_scores
CrossValidate ==
    /\ tpc = "cross_validate"
    /\ \E ok \in BOOLEAN :
        IF ok THEN
            /\ cv_scores' = DictPut(cv_scores, Head(todo), CvRecord(Head(todo)))
            /\ Advance("cross_validate", model)
        ELSE
            /\ cv_scores' = cv_scores
            /\ Fail("cross_validate", "ValueError")
    /\ UNCHANGED <<pvars, avars, parts, result, models, predictions, probabilities, test_scores,
                   tcall, tpre, ncalls>>

\* model.fit(self.X_train, self.y_train)
Fit ==
    /\ tpc = "fit"
    /\ \E ok \in BOOLEAN, p \in PredictionsOf(Head(todo)) :
        IF ok THEN Advance("fit", Some(FittedModel(Head(todo), p)))
        ELSE Fail("fit", "ValueError")
    /\ UNCHANGED <<pvars, avars, parts, result, dicts, tcall, tpre, ncalls>>

\* self._evaluate_model(model, kind): predict and predict_proba, the two
\* assignments, the four metrics, the assignment to self.test_scores.
EvaluateModel ==
    /\ tpc = "_evaluate_model"
    /\ \E o \in {"ok", "predict raises", "metric raises"} :
        LET k == Head(todo)
            p == Val(model).predicts
        IN IF ~Val(model).fitted \/ o = "predict raises" THEN
               /\ UNCHANGED <<predictions, probabilities, test_scores>>
               /\ Fail("_evaluate_model",
                       IF Val(model).fitted THEN "ValueError" ELSE "NotFittedError")
           ELSE
               /\ predictions' = DictPut(predictions, k, p)
               /\ probabilities' = DictPut(probabilities, k, [rows |-> Len(p), argmax |-> p])
               /\ IF o = "metric raises" THEN
                      /\ test_scores' = test_scores
                      /\ Fail("_evaluate_model", "ValueError")
                  ELSE
                      /\ test_scores' = DictPut(test_scores, k, TestScores(y_test, p))
                      /\ Advance("_evaluate_model", model)
    /\ UNCHANGED <<pvars, avars, parts, result, models, cv_scores, tcall, tpre, ncalls>>

\* self.models[kind] = model
StoreModel ==
    /\ tpc = "store"
    /\ models' = DictPut(models, Head(todo), Val(model))
    /\ Advance("store", model)
    /\ UNCHANGED <<pvars, avars, parts, result, predictions, probabilities, cv_scores, test_scores,
                   tcall, tpre, ncalls>>

\* The metric names of the rows of test_scores.
Metrics == {"Accuracy", "Precision", "Recall", "F1_Score"}

\* An idxmax that gives the last row of the maximum.
IdxMaxLast(d, metric) ==
    d[CHOOSE i \in DOMAIN d :
        /\ \A j \in DOMAIN d : d[j].val[metric] <= d[i].val[metric]
        /\ \A j \in DOMAIN d : j > i => d[j].val[metric] < d[i].val[metric]].key

\* pd.DataFrame(d).transpose()[metric].idxmax(): the rows are the keys of d in
\* their order, and idxmax gives the first row of the maximum.
IdxMax(d, metric) ==
    d[CHOOSE i \in DOMAIN d :
        /\ \A j \in DOMAIN d : d[j].val[metric] <= d[i].val[metric]
        /\ \A j \in DOMAIN d : j < i => d[j].val[metric] < d[i].val[metric]].key

\* What get_best_model and get_evaluation_summary give their caller.
Returned(op, metric, e, name, m, table) ==
    [op |-> op, metric |-> metric, err |-> e, name |-> name, model |-> m, table |-> table]

\* get_best_model(metric), called before a training call: the table of the
\* test scores has no column when no kind was evaluated, and
\* self.models[best_model_name] needs the key.
GetBestModel ==
    /\ tpc = "idle" /\ ncalls < MaxCalls /\ result = None
    /\ \E metric \in Metrics :
        result' = Some(
            IF test_scores = <<>> THEN
                Returned("get_best_model", metric, "KeyError", "", None, <<>>)
            ELSE IF IdxMax(test_scores, metric) \notin DictKeys(models) THEN
                Returned("get_best_model", metric, "KeyError", "", None, <<>>)
            ELSE
                Returned("get_best_model", metric, "none", IdxMax(test_scores, metric),
                         Some(DictGet(models, IdxMax(test_scores, metric))), <<>>))
    /\ UNCHANGED <<pvars, avars, parts, dicts, tcall, todo, tpc, model, tlog, terr, tpre, ncalls>>

\* get_evaluation_summary(): pd.DataFrame(self.test_scores).transpose()
GetEvaluationSummary ==
    /\ tpc = "idle" /\ ncalls < MaxCalls /\ result = None
    /\ result' = Some(Returned("get_evaluation_summary", "", "none", "", None, test_scores))
    /\ UNCHANGED <<pvars, avars, parts, dicts, tcall, todo, tpc, model, tlog, terr, tpre, ncalls>>

NextTrainer ==
    \/ TrainerCall
    \/ CrossValidate
    \/ Fit
    \/ EvaluateModel
    \/ StoreModel
    \/ GetBestModel
    \/ GetEvaluationSummary

SpecTrainer == InitTrainer /\ [][NextTrainer]_vars

(***************************************************************************)
(* generate_prediction of the application                                  *)
(***************************************************************************)
\* The values of the three sliders of the form: the GPA from 0.0 to 4.0 in
\* steps of 0.1 (here in tenths), the two ratings from 1 to 10.
GpaValues == 0..40
RatingValues == 1..10
Profiles ==
    {[gpa |-> g, visual_learning |-> v, spatial_skills |-> sp] :
        g \in GpaValues, v \in RatingValues, sp \in RatingValues}

\* The keys of base_scores in the order of the dictionary.
Labels == <<"Very Low", "Low", "Medium", "High", "Very High">>

\* The scores, in hundredths, in the order of Labels: the initial ones, and
\* what each of the three adjustments adds.
BaseScores == <<10, 15, 35, 25, 15>>
GpaAdjustment == <<0, -10, -15, 10, 15>>
VisualAdjustment == <<0, -10, 0, 5, 10>>
SpatialAdjustment == <<0, 0, -10, 12, 8>>

\* The thresholds of the three tests (the GPA in tenths).
GpaThreshold == 35
VisualThreshold == 7
SpatialThreshold == 6

\* base_scores after the three adjustments.
AdjustedScores(p) ==
    [i \in DOMAIN Labels |->
        BaseScores[i]
        + (IF p.gpa > GpaThreshold THEN GpaAdjustment[i] ELSE 0)
        + (IF p.visual_learning > VisualThreshold THEN VisualAdjustment[i] ELSE 0)
        + (IF p.spatial_skills > SpatialThreshold THEN SpatialAdjustment[i] ELSE 0)]

\* {k: v/total}: each score as the fraction num/den of the total, in the order
\* of the keys.
ConfidenceScores(p) ==
    [i \in DOMAIN Labels |->
        [key |-> Labels[i],
         val |-> [num |-> AdjustedScores(p)[i], den |-> SumSeq(AdjustedScores(p))]]]

\* a/b < c/d for fractions with positive denominators.
FracLess(a, b) == a.num * b.den < b.num * a.den

\* max(d, key=d.get): a key whose value no other value exceeds.  The scores
\* are binary64 sums and quotients: two scores that are equal as fractions
\* may differ in the last bit (High and Very High are both 0.40/1.05 for a
\* high GPA and visual rating, and the code returns Very High), so each key
\* of a greatest fraction may be the one returned.
MaxKeys(d) ==
    {d[j].key : j \in {j \in DOMAIN d : \A k \in DOMAIN d : ~FracLess(d[j].val, d[k].val)}}

\* The application starts with the profile the form submits.
InitApp ==
    /\ file = MissingFile
    /\ df = None /\ X = None /\ y = None /\ target_col = None
    /\ numeric_features = <<>> /\ categorical_features = <<>>
    /\ scaler = None /\ le_target = None
    /\ caller = "nobody" /\ pc = "idle" /\ log = <<>> /\ err = "none"
    /\ pre = fields
    /\ strategy = "" /\ method = ""
    /\ hmv_out = None /\ X_encoded = None /\ X_scaled = None /\ X_final = None /\ ret = None
    /\ first = None
    /\ NoTrainer
    /\ student_profile \in {Some(p) : p \in Profiles}
    /\ prediction = None

\* generate_prediction(student_profile)
GeneratePrediction ==
    /\ student_profile # None /\ prediction = None
    /\ LET confidence_scores == ConfidenceScores(Val(student_profile))
       IN \E predicted_class \in MaxKeys(confidence_scores) :
              prediction' = Some([predicted_class |-> predicted_class,
                                  confidence |-> DictGet(confidence_scores, predicted_class),
                                  confidence_scores |-> confidence_scores])
    /\ UNCHANGED <<pvars, tvars, student_profile>>

NextApp == GeneratePrediction

SpecApp == InitApp /\ [][NextApp]_vars

(***************************************************************************)
(* Properties                                                              *)
(***************************************************************************)
\* The last method the caller executed is m (the fields before it are pre).
After(m) == log # <<>> /\ log[Len(log)] = m
PreDf == pre[1]
PreX == pre[2]
PreY == pre[3]

HasMissing(f) == \E nm \in ColSet(f) : \E r \in 1..NRows(f) : IsNA(f.col[nm][r])
RowHasMissing(f, r) == \E nm \in ColSet(f) : IsNA(f.col[nm][r])
RowHasMissingNumber(f, r) == \E nm \in ColSet(f) : f.dtype[nm] = "number" /\ IsNA(f.col[nm][r])

\* The order of the steps as the documentation of the pipeline gives it.
DocumentedOrder ==
    <<"load_data", "identify_target", "separate_features_target", "classify_features",
      "handle_missing_values", "encode_target", "encode_categorical_features",
      "standardize_numeric_features", "create_engineered_features">>

\* C1: get_processed_data runs load_data, identify_target,
\* separate_features_target, classify_features, handle_missing_values,
\* encode_target, encode_categorical_features, standardize_numeric_features,
\* create_engineered_features in this order, each once (what it has executed
\* is at every moment a prefix of that list, and the whole list when it
\* returns), and it returns the engineered table and the encoded target:
\* every numeric column made by the encoding is standardized in the result,
\* and every engineered column is computed from standardized values.
C1_PipelineOrder ==
    caller = "get_processed_data" =>
        /\ Len(log) <= Len(DocumentedOrder)
        /\ log = SubSeq(DocumentedOrder, 1, Len(log))
        /\ pc = "done" =>
            /\ log = DocumentedOrder
            /\ Val(ret).X = Val(X_final)
            /\ Val(ret).y = Val(y)
            /\ \A i \in 1..Len(Val(y).vals) :
                  LabelDecode(Val(le_target), Val(y).vals[i].n \div Scale)
                      = Val(df).col[Val(target_col)][i]
            /\ \A nm \in ColSet(Val(X_encoded)) :
                  /\ nm \in ColSet(Val(X_final))
                  /\ Val(X_encoded).dtype[nm] = "number" =>
                        \A r \in 1..NRows(Val(X_final)) : Val(X_final).col[nm][r].k = "z"
            /\ \A nm \in ColSet(Val(X_final)) \ ColSet(Val(X_encoded)) :
                  \A r \in 1..NRows(Val(X_final)) :
                      \A i \in DOMAIN Val(X_final).col[nm][r].src :
                          Val(X_final).col[nm][r].src[i].k = "z"

C1_Witness ==
    /\ caller = "get_processed_data" /\ pc = "done"
    /\ NCols(Val(ret).X) > NCols(Val(X_scaled))
    /\ NCols(Val(X_encoded)) > NCols(Val(X))

\* C2: load_data raises FileNotFoundError when the file does not exist and an
\* empty-data error (ValueError, or pandas' EmptyDataError for a file without
\* any content) when the table has no row; the caller then stops: load_data
\* is the only method it has executed.
C2_LoadFailsFast ==
    log # <<>> =>
        /\ file.kind = "missing" =>
              (err = "FileNotFoundError" /\ pc = "failed" /\ log = <<"load_data">>)
        /\ file.kind = "blank" =>
              (err = "EmptyDataError" /\ pc = "failed" /\ log = <<"load_data">>)
        /\ (file.kind = "csv" /\ Len(file.target) = 0) =>
              (err = "ValueError" /\ pc = "failed" /\ log = <<"load_data">>)

C2_Witness ==
    /\ caller = "get_processed_data" /\ file.kind = "csv" /\ Len(file.target) = 0
    /\ Len(file.feat) > 0 /\ pc = "failed" /\ err = "ValueError"

\* C3: when load_data raises, every field of the DataPreprocessor has the
\* value it had before the call.
C3_LoadFailureKeepsFields ==
    (After("load_data") /\ err # "none") => fields = pre

\* C4: separate_features_target gives a feature table and a target series
\* with the rows of the loaded table, in the same order, the feature table
\* with every column but the last and the target with the cells of the last.
C4_SplitPreservesRows ==
    After("separate_features_target") =>
        LET d == Val(df)
            n == Len(d.cols)
        IN /\ NRows(Val(X)) = Len(file.target)
           /\ Len(Val(y).vals) = Len(file.target)
           /\ Val(X).idx = d.idx
           /\ Val(y).idx = d.idx
           /\ Val(X).cols = SubSeq(d.cols, 1, n - 1)
           /\ \A i \in 1..(n - 1) : Val(X).col[d.cols[i]] = file.feat[i]
           /\ Val(y).vals = file.target

C4_Witness ==
    /\ After("separate_features_target")
    /\ NRows(Val(X)) >= 2 /\ NCols(Val(X)) >= 2

\* C5: after classify_features every column of the feature table is in
\* exactly one of numeric_features and categorical_features.
C5_ClassificationPartitions ==
    After("classify_features") =>
        \A nm \in ColSet(Val(X)) :
            (nm \in Range(numeric_features)) # (nm \in Range(categorical_features))

\* C6: every column of the feature table get_processed_data returns holds
\* numbers.
C6_ReturnedTableNumeric ==
    (caller = "get_processed_data" /\ pc = "done") =>
        \A nm \in ColSet(Val(ret).X) : Val(ret).X.dtype[nm] = "number"

\* C7: after handle_missing_values with strategy mean or median on a table
\* with some missing cell, no cell of a numeric column is missing.
C7_NoMissingNumbers ==
    (After("handle_missing_values") /\ strategy \in {"mean", "median"} /\ HasMissing(Val(PreX))) =>
        \A r \in 1..NRows(Val(X)) : ~RowHasMissingNumber(Val(X), r)

\* C8: on a table without missing cells handle_missing_values does nothing,
\* whatever the strategy: it does not raise, returns the table as it was,
\* changes no field and reports no imputed value.
C8_NoMissingNoOp ==
    (After("handle_missing_values") /\ ~HasMissing(Val(PreX))) =>
        /\ err = "none"
        /\ fields = pre
        /\ hmv_out # None
        /\ Val(hmv_out).rv = Val(PreX)
        /\ Val(hmv_out).n = 0
        /\ Val(hmv_out).msg = "No missing values detected"

C8_Witness ==
    /\ After("handle_missing_values") /\ ~HasMissing(Val(PreX))
    /\ strategy = "mode" /\ NRows(Val(X)) >= 2 /\ NCols(Val(X)) >= 1

\* C9 as stated: with strategy 'drop', the rows removed are exactly those with
\* a missing cell in a numeric column.
C9_DropsRowsMissingNumbers ==
    (After("handle_missing_values") /\ strategy = "drop" /\ err = "none") =>
        \A r \in 1..NRows(Val(PreX)) :
            (Val(PreX).idx[r] \in Range(Val(X).idx)) <=> ~RowHasMissingNumber(Val(PreX), r)

\* C9 amended: with strategy 'drop', the rows removed are exactly those with
\* a missing cell in any column, numeric or not; the other rows are kept in
\* their order with their cells, and the columns stay.
C9_DropsRowsMissingAny ==
    (After("handle_missing_values") /\ strategy = "drop" /\ err = "none") =>
        /\ \A r \in 1..NRows(Val(PreX)) :
              (Val(PreX).idx[r] \in Range(Val(X).idx)) <=> ~RowHasMissing(Val(PreX), r)
        /\ \A i, j \in 1..NRows(Val(X)) : i < j => Val(X).idx[i] < Val(X).idx[j]
        /\ Val(X).cols = Val(PreX).cols
        /\ \A nm \in ColSet(Val(X)) : \A i \in 1..NRows(Val(X)) :
              Val(X).col[nm][i] = Val(PreX).col[nm][Val(X).idx[i] + 1]

C9_Witness ==
    /\ After("handle_missing_values") /\ strategy = "drop" /\ err = "none"
    /\ \E r \in 1..NRows(Val(PreX)) :
          /\ RowHasMissing(Val(PreX), r) /\ ~RowHasMissingNumber(Val(PreX), r)
          /\ Val(PreX).idx[r] \notin Range(Val(X).idx)
    /\ NRows(Val(X)) >= 1

\* C10: encode_target maps the observed labels one to one onto
\* 0..num_classes-1 in sorted label order: every code is in the range, equal
\* labels and only equal labels share a code, a smaller label has a smaller
\* code, and decoding a code gives the label back.
C10_TargetEncodingBijection ==
    After("encode_target") =>
        LET le == Val(le_target)
            raw == Val(PreY).vals
            code == [i \in 1..Len(Val(y).vals) |-> Val(y).vals[i].n \div Scale]
            k == Cardinality(Range(raw))
        IN /\ Len(Val(y).vals) = Len(raw)
           /\ Val(y).idx = Val(PreY).idx
           /\ Len(le.classes) = k
           /\ \A i \in DOMAIN raw :
                 /\ Val(y).vals[i] = Num(Scale * code[i])
                 /\ code[i] \in 0..(k - 1)
                 /\ LabelDecode(le, code[i]) = raw[i]
           /\ \A i, j \in DOMAIN raw :
                 /\ (raw[i] = raw[j]) <=> (code[i] = code[j])
                 /\ LabelKey(raw[i]) < LabelKey(raw[j]) => code[i] < code[j]

C10_Witness ==
    /\ After("encode_target")
    /\ Len(Val(le_target).classes) = 2
    /\ Val(PreY).vals[1] = Str("y") /\ Val(y).vals[1] = Num(Scale)

\* The indicator cells one-hot encoding made for column c, in row r of g
\* (0 for the columns that are no indicator of c).
IndicatorCells(g, c, r) ==
    [j \in 1..Len(g.cols) |->
        IF g.cols[j].base = c.base /\ g.cols[j].i = c.i /\ g.cols[j].lvl # ""
        THEN g.col[g.cols[j]][r].n ELSE 0]

\* C11: after the one-hot encoding of the pipeline, for every categorical
\* column and every row, the indicator columns of that column sum to exactly 1
\* in that row (also in a row whose categorical cell is missing).
C11_OneHotRowsSumToOne ==
    (caller = "get_processed_data" /\ After("encode_categorical_features") /\ err = "none") =>
        \A c \in Range(categorical_features) : \A r \in 1..NRows(Val(X_encoded)) :
            SumSeq(IndicatorCells(Val(X_encoded), c, r)) = Scale

AppliedTransformers ==
    (IF hmv_out # None /\ Val(hmv_out).msg = "Imputed missing values" THEN {"imputer"} ELSE {})
    \cup (IF "encode_target" \in Range(log) THEN {"target_encoder"} ELSE {})
    \cup (IF X_encoded # None /\ categorical_features # <<>> THEN {"categorical_encoder"} ELSE {})
    \cup (IF X_scaled # None /\ SelectDtypes(Val(X_encoded), {"number"}) # <<>>
          THEN {"scaler"} ELSE {})
HeldTransformers ==
    (IF scaler # None /\ Val(scaler).fitted THEN {"scaler"} ELSE {})
    \cup (IF le_target # None THEN {"target_encoder"} ELSE {})

\* C13: after a complete run of get_processed_data the DataPreprocessor holds
\* every fitted transformer the run applied: imputer, target encoder,
\* categorical encoder, scaler.
C13_HoldsAppliedTransformers ==
    (caller = "get_processed_data" /\ pc = "done") => AppliedTransformers \subseteq HeldTransformers

\* C14: apart from load_data, no step raises, for every loaded table with a
\* row and a column, with the strategies mean, median and drop and the
\* methods onehot and ordinal.
C14_NoStepRaises ==
    (log # <<>> /\ ~After("load_data") /\ strategy \in {"", "mean", "median", "drop"}
        /\ method \in {"", "onehot", "ordinal"}) =>
        err = "none"

\* C15: encode_categorical_features on a table without categorical columns
\* and standardize_numeric_features on a table without numeric columns return
\* a table equal to their input, raise nothing and change no field: in the
\* second case no scaler is fitted.
C15_NothingToDoIsNoOp ==
    /\ (After("encode_categorical_features") /\ categorical_features = <<>>) =>
          (err = "none" /\ X_encoded = X /\ fields = pre)
    /\ (After("standardize_numeric_features")
          /\ \A nm \in ColSet(Val(X_encoded)) : Val(X_encoded).dtype[nm] # "number") =>
          (err = "none" /\ X_scaled = X_encoded /\ scaler = None /\ fields = pre)

C15_Witness ==
    /\ After("standardize_numeric_features")
    /\ NCols(Val(X_encoded)) >= 1 /\ NRows(Val(X_encoded)) >= 2
    /\ \A nm \in ColSet(Val(X_encoded)) : Val(X_encoded).dtype[nm] # "number"
    /\ categorical_features = <<>>
    /\ X_scaled = X /\ scaler = None

\* The number of numeric columns of a frame, and of thresholds it meets.
NumericCount(f) == Cardinality({nm \in ColSet(f) : f.dtype[nm] = "number"})
ThresholdsMet(f) ==
    (IF NumericCount(f) >= 2 THEN 1 ELSE 0) + (IF NumericCount(f) >= 3 THEN 1 ELSE 0)
        + (IF NumericCount(f) >= 4 THEN 1 ELSE 0)

\* C16: create_engineered_features appends the ratio column when the input
\* has at least 2 numeric columns, the mean column when it has at least 3,
\* the sum column when it has at least 4, and nothing else; the columns of the
\* input stay as they were, in their order, and so do the rows; every derived
\* cell is computed from the first 2, 3, 4 numeric columns of the input in
\* the same row.
C16_EngineeredColumnsByThreshold ==
    After("create_engineered_features") =>
        LET f == Val(X_scaled)
            g == Val(X_final)
            nc == Pick(f.cols, PosUpTo({i \in 1..Len(f.cols) : f.dtype[f.cols[i]] = "number"},
                                       Len(f.cols)))
            Made(nm, n, op) ==
                IF Len(nc) >= n
                THEN /\ nm \in ColSet(g)
                     /\ g.dtype[nm] = "number"
                     /\ \A r \in 1..NRows(g) :
                           g.col[nm][r] = Derived(op, [i \in 1..n |-> f.col[nc[i]][r]])
                ELSE nm \notin ColSet(g)
        IN /\ err = "none"
           /\ g.idx = f.idx
           /\ SubSeq(g.cols, 1, Len(f.cols)) = f.cols
           /\ \A nm \in ColSet(f) : g.col[nm] = f.col[nm] /\ g.dtype[nm] = f.dtype[nm]
           /\ NCols(g) = NCols(f) + ThresholdsMet(f)
           /\ Made(EfficiencyName, 2, "ratio")
           /\ Made(EngagementName, 3, "mean")
           /\ Made(LearningName, 4, "sum")
           /\ fields = pre

C16_Witness ==
    /\ After("create_engineered_features")
    /\ NumericCount(Val(X_scaled)) = 4
    /\ NCols(Val(X_final)) = NCols(Val(X_scaled)) + 3
    /\ NRows(Val(X_final)) >= 2

\* C17: on a table of 10 rows without missing cells, with 3 numeric columns,
\* 1 text column with 2 values and a target with 3 labels, get_processed_data
\* does not fail and returns the same 10 rows, 3 + 2 columns plus one
\* engineered column per threshold the numeric columns of the encoded table
\* meet (all three: 8 columns), and a target of 10 integers among 0, 1, 2.
C17_ScenarioShape ==
    caller = "get_processed_data" =>
        /\ err = "none"
        /\ pc = "done" =>
            /\ Val(ret).X.idx = [i \in 1..ScenarioRows |-> i - 1]
            /\ \A nm \in ColSet(Val(ret).X) : Len(Val(ret).X.col[nm]) = ScenarioRows
            /\ NCols(Val(ret).X) = 3 + 2 + ThresholdsMet(Val(X_encoded))
            /\ ThresholdsMet(Val(X_encoded)) = 3
            /\ Val(ret).y.idx = [i \in 1..ScenarioRows |-> i - 1]
            /\ Len(Val(ret).y.vals) = ScenarioRows
            /\ \A i \in 1..ScenarioRows : Val(ret).y.vals[i] \in {Num(0), Num(Scale), Num(2 * Scale)}

C17_Witness ==
    /\ caller = "get_processed_data" /\ pc = "done"
    /\ NRows(Val(ret).X) = ScenarioRows /\ NCols(Val(ret).X) = 8
    /\ {Val(ret).y.vals[i] : i \in 1..ScenarioRows} = {Num(0), Num(Scale), Num(2 * Scale)}
    /\ Val(df).col[Feat(1)] # Val(df).col[Feat(2)]

\* The steps the last call executed for kind k, and the kinds it executed a
\* step for, in order.
StepsOf(k) ==
    LET sel == SelectSeq(tlog, LAMBDA e : e.kind = k)
    IN [i \in 1..Len(sel) |-> sel[i].step]
KindsRun == UniqueAsSeen([i \in 1..Len(tlog) |-> tlog[i].kind])
\* The item of a dictionary for a key, if any.
EntryOf(d, k) == IF k \in DictKeys(d) THEN <<DictGet(d, k)>> ELSE <<>>

\* C18: within a train method a kind goes from untrained to cross-validated,
\* fitted and evaluated in this order: the steps executed for it are a prefix
\* of cross-validation, fit, evaluation, storing (without a step of another
\* kind in between, and only the last may have raised); its cross-validation
\* record is stored before the model is fitted, the fitted model is what is
\* evaluated, and the kind is in models only after its test metrics are in
\* test_scores.
C18_KindStateOrder ==
    /\ \A k \in Kinds :
          /\ LET s == StepsOf(k)
             IN /\ Len(s) <= 4
                /\ s = SubSeq(<<"cross_validate", "fit", "_evaluate_model", "store">>, 1, Len(s))
          /\ k \in DictKeys(models) =>
                (k \in DictKeys(test_scores) /\ k \in DictKeys(predictions)
                    /\ k \in DictKeys(cv_scores) /\ DictGet(models, k).fitted)
          /\ k \in DictKeys(test_scores) =>
                (k \in DictKeys(predictions) /\ k \in DictKeys(cv_scores))
    /\ \A i \in 1..(Len(tlog) - 1) :
          /\ tlog[i].ok
          /\ \A j \in (i + 1)..Len(tlog) :
                tlog[i].kind = tlog[j].kind => tlog[i + 1].kind = tlog[i].kind
    /\ model # None =>
          LET s == StepsOf(Val(model).kind) IN
          /\ Val(model).fitted => Val(model).kind \in DictKeys(cv_scores)
          /\ Val(model).fitted <=> "fit" \in Range(s)
          /\ "_evaluate_model" \in Range(s) =>
                DictGet(predictions, Val(model).kind) = Val(model).predicts
    /\ (tlog # <<>> /\ tlog[Len(tlog)].step = "store") =>
          LET k == tlog[Len(tlog)].kind IN
          /\ DictGet(predictions, k) = DictGet(models, k).predicts
          /\ DictGet(test_scores, k) = TestScores(y_test, DictGet(models, k).predicts)

C18_Witness ==
    /\ tcall = "train_random_forest" /\ tpc = "idle" /\ terr = "none"
    /\ StepsOf("Random_Forest") = <<"cross_validate", "fit", "_evaluate_model", "store">>
    /\ DictKeys(models) = {"Random_Forest"}
    /\ DictGet(test_scores, "Random_Forest").F1_Score = MetricScale \div 3

\* C19: train_all_models trains LogisticRegression, RandomForest, XGBoost and
\* the neural network in this order; when a step of one of them raises, the
\* call ends with that exception, and no later kind is cross-validated,
\* fitted or evaluated: the dictionaries hold for it what they held before the
\* call.  Without an exception all four are trained.
C19_TrainAllOrderAndAbort ==
    tcall = "train_all_models" =>
        LET run == KindsRun IN
        /\ run = SubSeq(<<"Logistic_Regression", "Random_Forest", "XGBoost",
                          "Neural_Network">>, 1, Len(run))
        /\ \A k \in Kinds \ Range(run) :
              \A j \in 1..5 : EntryOf(dicts[j], k) = EntryOf(tpre[j], k)
        /\ terr # "none" =>
              /\ tpc = "idle" /\ todo = <<>>
              /\ tlog # <<>> /\ ~tlog[Len(tlog)].ok
              /\ \A i \in 1..(Len(tlog) - 1) : tlog[i].ok
        /\ (tpc = "idle" /\ terr = "none") => Len(tlog) = 16 /\ Len(run) = 4

C19_Witness ==
    /\ tcall = "train_all_models" /\ terr # "none" /\ ncalls = 1
    /\ KindsRun = <<"Logistic_Regression", "Random_Forest">>
    /\ StepsOf("Random_Forest") = <<"cross_validate", "fit">>
    /\ DictKeys(cv_scores) = {"Logistic_Regression", "Random_Forest"}
    /\ DictKeys(models) = {"Logistic_Regression"}

\* C20: when a kind fails during train_all_models, the trainer holds no fitted
\* model, no test metrics and no cross-validation record of the kinds the
\* call trained before the failing one.
C20_NoPartialOutcome ==
    (tcall = "train_all_models" /\ terr # "none") =>
        \A k \in Kinds :
            "store" \in Range(StepsOf(k)) =>
                /\ k \notin DictKeys(models)
                /\ k \notin DictKeys(test_scores)
                /\ k \notin DictKeys(cv_scores)

\* C21: get_best_model(metric) on a trainer with some evaluated kind returns
\* a kind of test_scores whose score for the metric is the maximum over all
\* the kinds of test_scores, with the model stored for that kind, which is
\* fitted and gave the recorded predictions; among the kinds that tie for the
\* maximum it is the one that was evaluated first, so the answer is fixed by
\* the recorded scores; the call changes nothing.
C21_BestModelIsMaximum ==
    (result # None /\ Val(result).op = "get_best_model") =>
        LET r == Val(result) IN
        IF test_scores = <<>> THEN r.err = "KeyError"
        ELSE
            /\ r.err = "none"
            /\ r.name \in DictKeys(test_scores)
            /\ \A k \in DictKeys(test_scores) :
                  DictGet(test_scores, k)[r.metric] <= DictGet(test_scores, r.name)[r.metric]
            /\ \A i, j \in DOMAIN test_scores :
                  (test_scores[j].key = r.name /\ i < j) =>
                      test_scores[i].val[r.metric] < test_scores[j].val[r.metric]
            /\ r.model = Some(DictGet(models, r.name))
            /\ Val(r.model).fitted /\ Val(r.model).kind = r.name
            /\ DictGet(test_scores, r.name) = TestScores(y_test, Val(r.model).predicts)

C21_Witness ==
    /\ result # None /\ Val(result).op = "get_best_model" /\ Val(result).metric = "F1_Score"
    /\ Val(result).name = "Random_Forest"
    /\ DictKeys(test_scores) = Kinds
    /\ DictGet(test_scores, "XGBoost") = DictGet(test_scores, "Random_Forest")
    /\ DictGet(test_scores, "Logistic_Regression").F1_Score
          < DictGet(test_scores, "Random_Forest").F1_Score

\* C22: the cross-validation of every kind is given the training partition
\* only, with a stratified splitter of 5 folds that shuffles with a seed; the
\* fit is given the whole training partition; the test partition is passed
\* on by the evaluation step only; and the two partitions and the splitter
\* stay what the constructor stored.
C22_PartitionsReadOnly ==
    cv # None =>
        /\ X_train = [i \in 1..(2 * TestRows) |-> i]
        /\ y_train = [i \in 1..(2 * TestRows) |-> i % 2]
        /\ X_test = [i \in 1..TestRows |-> 2 * TestRows + i]
        /\ y_test = [i \in 1..TestRows |-> i % 2]
        /\ Val(cv).class = "StratifiedKFold" /\ Val(cv).n_splits = 5
        /\ Val(cv).shuffle /\ Val(cv).random_state \in Int
        /\ \A i \in DOMAIN tlog :
              /\ tlog[i].step = "cross_validate" => tlog[i].reads = {"X_train", "y_train", "cv"}
              /\ tlog[i].step = "fit" => tlog[i].reads = {"X_train", "y_train"}
              /\ tlog[i].reads \cap {"X_test", "y_test"} # {} => tlog[i].step = "_evaluate_model"
        /\ \A i \in DOMAIN cv_scores :
              /\ cv_scores[i].val.X = X_train /\ cv_scores[i].val.y = y_train
              /\ cv_scores[i].val.cv = Val(cv)
              /\ cv_scores[i].val.estimator = cv_scores[i].key

C22_Witness ==
    /\ tcall = "train_all_models" /\ tpc = "idle" /\ terr = "none" /\ Len(tlog) = 16
    /\ DictKeys(cv_scores) = Kinds /\ DictKeys(test_scores) = Kinds
    /\ tlog[3].reads = {"X_test", "y_test"}

\* C23: a kind whose model, test metrics and cross-validation record were
\* stored when a call began has the same model, the same test metrics and the
\* same cross-validation record afterwards, whatever the call is.
C23_StoredRecordsStay ==
    \A k \in Kinds :
        (k \in DictKeys(tpre[1]) /\ k \in DictKeys(tpre[5]) /\ k \in DictKeys(tpre[4])) =>
            /\ EntryOf(models, k) = EntryOf(tpre[1], k)
            /\ EntryOf(test_scores, k) = EntryOf(tpre[5], k)
            /\ EntryOf(cv_scores, k) = EntryOf(tpre[4], k)

\* C24: standardize_numeric_features scales every numeric column of the
\* encoded table, the 0/1 indicator columns of the one-hot encoding included:
\* each cell becomes its value, or 0 for a missing cell, minus the mean of the
\* column so filled, to be divided by the standard deviation of that column;
\* no cell of a numeric column of the result is missing, and the columns that
\* are not numeric, the row labels, the column order and the dtypes are those
\* of the input.
C24_ScalesEveryNumericColumn ==
    (After("standardize_numeric_features") /\ err = "none") =>
        LET f == Val(X_encoded)
            g == Val(X_scaled)
        IN /\ g.cols = f.cols /\ g.idx = f.idx /\ g.dtype = f.dtype
           /\ \A nm \in ColSet(f) :
                 IF f.dtype[nm] = "number" THEN
                     LET filled == [r \in 1..NRows(f) |->
                                       IF IsNA(f.col[nm][r]) THEN 0 ELSE f.col[nm][r].n]
                         mean == SumSeq(filled) \div NRows(f)
                     IN \A r \in 1..NRows(f) :
                           /\ g.col[nm][r].k = "z"
                           /\ g.col[nm][r].n = filled[r] - mean
                           /\ g.col[nm][r].d[2] = NRows(f)
                 ELSE g.col[nm] = f.col[nm]

\* An indicator column with both values is scaled next to a column of
\* booleans, which stays.
C24_Witness ==
    /\ After("standardize_numeric_features") /\ err = "none" /\ method = "onehot"
    /\ \E nm \in ColSet(Val(X_scaled)) :
          /\ nm.lvl # ""
          /\ Val(X_encoded).col[nm] = <<Num(Scale), Num(0)>>
          /\ Val(X_scaled).col[nm][1].k = "z" /\ Val(X_scaled).col[nm][1].n > 0
    /\ \E nm \in ColSet(Val(X_scaled)) :
          Val(X_scaled).dtype[nm] = "bool" /\ Val(X_scaled).col[nm] = Val(X_encoded).col[nm]

\* Ordinal codes with a missing cell left by the imputation of the numeric
\* columns: the missing cell is scaled as a 0.
C24_MissingFilled ==
    /\ After("standardize_numeric_features") /\ err = "none" /\ method = "ordinal"
    /\ \E nm \in ColSet(Val(X_scaled)) : \E r \in 1..NRows(Val(X_scaled)) :
          IsNA(Val(X_encoded).col[nm][r]) /\ Val(X_scaled).col[nm][r].k = "z"

\* The sum of the values and of the squared values of the cells of a column.
CellSum(cells) == SumSeq([i \in 1..Len(cells) |-> cells[i].n])
CellSumSq(cells) == SumSeq([i \in 1..Len(cells) |-> cells[i].n * cells[i].n])

\* C25 as stated: on the fit data every standardized column has mean 0 and
\* standard deviation 1, the columns whose values are all equal included (the
\* centred values sum to 0, and their squares sum to the positive sum of
\* squares they are divided by).
C25_MeanZeroStdOne ==
    (After("standardize_numeric_features") /\ err = "none") =>
        \A nm \in ColSet(Val(X_encoded)) :
            Val(X_encoded).dtype[nm] = "number" =>
                LET cells == Val(X_scaled).col[nm]
                IN /\ CellSum(cells) = 0
                   /\ cells[1].d[1] > 0
                   /\ \A r \in DOMAIN cells : cells[r].d = cells[1].d
                   /\ CellSumSq(cells) = cells[1].d[1]

\* C25 amended: on the fit data every standardized column has mean 0; a
\* column whose (filled) values are not all equal has standard deviation 1
\* (divisor n), and a column whose values are all equal is all 0 (standard
\* deviation 0: the scaler divides by 1).
C25_MeanZeroStdOneUnlessConstant ==
    (After("standardize_numeric_features") /\ err = "none") =>
        \A nm \in ColSet(Val(X_encoded)) :
            Val(X_encoded).dtype[nm] = "number" =>
                LET cells == Val(X_scaled).col[nm]
                    fit == Fillna0(Val(X_encoded).col[nm])
                IN /\ CellSum(cells) = 0
                   /\ \A r \in DOMAIN cells : cells[r].d = cells[1].d
                   /\ IF \A r \in DOMAIN fit : fit[r].n = fit[1].n
                      THEN cells[1].d[1] = 0 /\ \A r \in DOMAIN cells : cells[r].n = 0
                      ELSE cells[1].d[1] > 0 /\ CellSumSq(cells) = cells[1].d[1]

\* A column with three different imputed values next to a constant one.
C25_Witness ==
    /\ After("standardize_numeric_features") /\ err = "none"
    /\ \E nm \in ColSet(Val(X_scaled)) :
          /\ Val(X_encoded).dtype[nm] = "number"
          /\ Val(X_scaled).col[nm][1].d[1] > 0
          /\ Val(X_scaled).col[nm][1].n # 0
    /\ \E nm \in ColSet(Val(X_scaled)) :
          /\ Val(X_encoded).dtype[nm] = "number"
          /\ Val(X_encoded).col[nm] = <<Num(Scale), Num(Scale)>>
          /\ Val(X_scaled).col[nm] = <<Z(0, 0, 2), Z(0, 0, 2)>>

\* C26: after handle_missing_values with strategy mean, median or drop the
\* feature table self.X and the target self.y have the same rows: the same
\* number of rows and the same row labels in the same order; and so have the
\* table and the target the caller ends with.
C26_FeaturesTargetAligned ==
    /\ (After("handle_missing_values") /\ strategy \in {"mean", "median", "drop"}
            /\ err = "none") =>
          (NRows(Val(X)) = Len(Val(y).vals) /\ Val(X).idx = Val(y).idx)
    /\ (pc = "done" /\ strategy \in {"mean", "median", "drop"}) =>
          Val(ret).X.idx = Val(ret).y.idx

\* C28: encode_categorical_features encodes the columns classify_features
\* recorded in categorical_features and no other.  Run by a client that has
\* not called classify_features since the construction, with either method,
\* it raises nothing and returns the feature table as it is, its text columns
\* unencoded.  After a classify_features the recorded columns, all the text
\* columns of the table, are the ones replaced: by their indicator columns
\* (onehot) or by numeric codes (ordinal), the other columns kept.
C28_EncodesRecordedColumns ==
    After("encode_categorical_features") =>
        IF "classify_features" \notin Range(log) THEN
            /\ categorical_features = <<>>
            /\ err = "none"
            /\ X_encoded = X
            /\ \A nm \in ColSet(Val(X)) : Val(X_encoded).dtype[nm] = Val(X).dtype[nm]
        ELSE
            /\ Range(categorical_features)
                  = {nm \in ColSet(Val(X)) : Val(X).dtype[nm] = "object"}
            /\ err = "none" =>
                  \A nm \in ColSet(Val(X)) :
                      IF nm \in Range(categorical_features)
                      THEN IF method = "onehot"
                           THEN nm \notin ColSet(Val(X_encoded))
                           ELSE Val(X_encoded).dtype[nm] = "number"
                      ELSE /\ nm \in ColSet(Val(X_encoded))
                           /\ Val(X_encoded).col[nm] = Val(X).col[nm]

\* A client that never called classify_features asks for the ordinal
\* encoding of a table with a text column of two values.
C28_Witness ==
    /\ After("encode_categorical_features") /\ caller = "client"
    /\ "classify_features" \notin Range(log)
    /\ method = "ordinal" /\ err = "none"
    /\ \E nm \in ColSet(Val(X_encoded)) :
          /\ Val(X_encoded).dtype[nm] = "object"
          /\ Val(X_encoded).col[nm] = <<Str("a"), Str("b")>>

\* C29: a second get_processed_data on the same instance with the file
\* unchanged returns the feature table and the encoded target the first call
\* returned, and leaves every field of the instance as the first call left it.
C29_SecondRunRepeatsFirst ==
    (first # None /\ pc = "done") =>
        /\ Val(ret).X = Val(first).ret.X
        /\ Val(ret).y = Val(first).ret.y
        /\ fields = Val(first).fields

\* A second run on a file with a missing number, a text column and a label
\* column: every step has something to do.
C29_Witness ==
    /\ first # None /\ pc = "done"
    /\ log = DocumentedOrder
    /\ HasMissing(Val(df))
    /\ numeric_features # <<>> /\ categorical_features # <<>>
    /\ NCols(Val(ret).X) > NCols(Val(X))
    /\ Val(first).ret.X = Val(ret).X

\* C30: for every profile generate_prediction returns one score per label,
\* each between 0 and 1, the scores adding up to 1, a predicted label whose
\* score no other score exceeds, and as confidence the score of that label.
C30_ConfidenceDistribution ==
    prediction # None =>
        LET r == Val(prediction)
            d == r.confidence_scores
        IN /\ [i \in DOMAIN d |-> d[i].key] = Labels
           /\ \A i \in DOMAIN d :
                 /\ d[i].val.den > 0
                 /\ 0 <= d[i].val.num
                 /\ d[i].val.num <= d[i].val.den
           /\ SumSeq([i \in DOMAIN d |-> d[i].val.num]) = d[1].val.den
           /\ \A i \in DOMAIN d : d[i].val.den = d[1].val.den
           /\ r.predicted_class \in DictKeys(d)
           /\ \A i \in DOMAIN d : ~FracLess(DictGet(d, r.predicted_class), d[i].val)
           /\ r.confidence = DictGet(d, r.predicted_class)

\* C27: whenever no method of the trainer is executing, also after calls that
\* raised, models and test_scores have the same keys, predictions and
\* probabilities have the same keys, the keys of test_scores are keys of
\* predictions, and these are keys of cv_scores; so the kind get_best_model
\* selects has a fitted model.
C27_KeySetsAtRest ==
    tpc = "idle" =>
        /\ DictKeys(models) = DictKeys(test_scores)
        /\ DictKeys(predictions) = DictKeys(probabilities)
        /\ DictKeys(test_scores) \subseteq DictKeys(predictions)
        /\ DictKeys(predictions) \subseteq DictKeys(cv_scores)
        /\ \A i \in DOMAIN models : models[i].val.fitted /\ models[i].val.kind = models[i].key
        /\ (result # None /\ Val(result).op = "get_best_model" /\ test_scores # <<>>) =>
              (Val(result).err = "none" /\ Val(result).name \in DictKeys(models))

C27_Witness ==
    /\ tpc = "idle" /\ terr # "none" /\ tcall = "train_all_models"
    /\ tlog[Len(tlog)].step = "_evaluate_model"
    /\ DictKeys(models) = {"Logistic_Regression"}
    /\ DictKeys(predictions) = {"Logistic_Regression", "Random_Forest"}
    /\ DictKeys(cv_scores) = {"Logistic_Regression", "Random_Forest"}
    /\ result # None /\ Val(result).name = "Logistic_Regression"

====
